---- MODULE Spec2Model ----
(***************************************************************************)
(* Reusable blocks: the embedded editor of a 'core/block' reference block  *)
(* (ReusableBlockEdit + SelectionObserver) and the effects converting      *)
(* between static and reusable blocks.                                     *)
(***************************************************************************)
EXTENDS Integers, Sequences, FiniteSets, TLC

\* ------------------------------------------------------------------ bounds
\* cancelEditing is offered while cancelIncrementKey is below this.
MaxCancel == 2
\* Content versions of a fragment / of the private tree are 0..MaxContent.
MaxContent == 1
\* Partial states that setState may hold queued before React flushes them.
MaxPending == 3

\* ------------------------------------------------------------------ values
Null == "null"
\* clientIds of the parent editor: "R" is the reusable (reference) block itself.
ParentIds == {"R", "X"}
\* clientIds of the blocks of the embedded editor.
ChildIds == {"a", "b"}
Contents == 0..MaxContent
\* Persisted fragment ids (finite numbers), and one temporary id (a string).
PersistedIds == {1, 2}
Refs == {[kind |-> "number", val |-> n] : n \in PersistedIds}
          \cup {[kind |-> "string", val |-> 1]}
Undefined == [id |-> -1, content |-> -1]
\* EditorProvider is not in the rendered tree.
Unmounted == -1

VARIABLES
  state,                 \* this.state: isEditing, cancelIncrementKey
  pending,               \* partial states queued by setState, not yet flushed
  isSelectingInnerBlock, \* the instance field (absent = FALSE)
  props,                 \* blockSelectionStart/End as of the last update
  parentSel,             \* selection of the parent 'core/block-editor' store
  childSel,              \* selection of this.registry's 'core/block-editor' store
  observerProps,         \* SelectionObserver's hasSelectedBlock as of its last update
  ref,                   \* attributes.ref
  resolved,              \* persisted ids whose entity record is in the core store
  fetching,              \* persisted ids whose getEntityRecord is resolving
  entityContent,         \* committed content of each persisted fragment
  mountedKey,            \* key of the mounted EditorProvider, or Unmounted
  privateTree,           \* blocks of the embedded editor (content version)
  rendered,              \* what the last render() returned
  calls,                 \* calls made by the reactions to the last event, in order
  store,                 \* the document's block store and the reusable blocks
  lastAction,            \* the conversion action handled last
  sync                   \* a block list, its template and the synchronized list

sessionVars == <<state, pending, isSelectingInnerBlock, props, parentSel, childSel,
                 observerProps, ref, resolved, fetching, entityContent, mountedKey,
                 privateTree, rendered, calls>>

conversionVars == <<store, lastAction>>

templateVars == <<sync>>

vars == <<sessionVars, conversionVars, templateVars>>

\* ------------------------------------------------------------- selection
NoSelection == [start |-> Null, end |-> Null]

\* Selection host: clearSelection() of a 'core/block-editor' store.
clearSelectedBlock(sel) == NoSelection

\* Selection host: selecting one block.
selectBlock(id) == [start |-> id, end |-> id]

\* Selection host: a multi-selection from one block to another.
multiSelect(from, to) == [start |-> from, end |-> to]

\* selection-observer withSelect: hasSelectedBlock of the child store.
hasSelectedBlock(sel) == sel.start # Null

\* withSelect: blockSelectionStart / blockSelectionEnd of the parent store.
selectionProps(sel) == [blockSelectionStart |-> sel.start, blockSelectionEnd |-> sel.end]

\* ------------------------------------------------ ReusableBlockEdit methods
\* The reactions act on the instance field and on the two stores; c is
\* [guard, parentSel, childSel, calls].

\* Mutant: without the guard, a block of the child's store is selected.
onSelectedBlockChange_SelectsChild(c) ==
  IF c.guard
    THEN [c EXCEPT !.guard = FALSE,
                   !.calls = Append(@, "delete isSelectingInnerBlock")]
    ELSE [c EXCEPT !.childSel = selectBlock("a"),
                   !.calls = Append(@, "registry.selectBlock")]

\* onSelectedBlockChange: consume the guard, or clear the child's selection.
onSelectedBlockChange(c) ==
  IF c.guard
    THEN [c EXCEPT !.guard = FALSE,
                   !.calls = Append(@, "delete isSelectingInnerBlock")]
    ELSE [c EXCEPT !.childSel = clearSelectedBlock(@),
                   !.calls = Append(@, "registry.clearSelectedBlock")]

\* ReusableBlockEdit.componentDidUpdate( prevProps ).
componentDidUpdate(prevProps, thisProps, c) ==
  LET hasBlockSelectionChanged ==
        \/ thisProps.blockSelectionStart # prevProps.blockSelectionStart
        \/ thisProps.blockSelectionEnd # prevProps.blockSelectionEnd
  IN IF hasBlockSelectionChanged
       THEN onSelectedBlockChange([c EXCEPT !.calls = Append(@, "onSelectedBlockChange")])
       ELSE c

\* onInnerBlockSelected: set the guard, then clear the parent's selection.
onInnerBlockSelected(c) ==
  [c EXCEPT !.guard = TRUE,
            !.parentSel = clearSelectedBlock(@),
            !.calls = @ \o <<"isSelectingInnerBlock = true", "props.clearSelectedBlock">>]

\* Mutant: the callback is called on any change of hasSelectedBlock.
SelectionObserverDidUpdate_AnyChange(prevHas, has, c) ==
  IF has # prevHas
    THEN onInnerBlockSelected([c EXCEPT !.calls = Append(@, "onBlockSelected")])
    ELSE c

\* SelectionObserver.componentDidUpdate( prevProps ).
SelectionObserverDidUpdate(prevHas, has, c) ==
  IF has /\ ~prevHas
    THEN onInnerBlockSelected([c EXCEPT !.calls = Append(@, "onBlockSelected")])
    ELSE c

\* ----------------------------------------------------- component state
\* setState( partial ): the partial state is queued; this.state is not changed
\* until React flushes the queue.
setState(q, partial) == Append(q, partial)

\* Mutant: toggleIsEditing that inverts its argument.
toggleIsEditing_Inverted(q, isEditing) ==
  setState(q, [field |-> "isEditing", b |-> ~isEditing, n |-> 0])

\* toggleIsEditing( isEditing ).
toggleIsEditing(q, isEditing) ==
  setState(q, [field |-> "isEditing", b |-> isEditing, n |-> 0])

\* Mutant: startEditing that also queues the first key.
startEditing_ResetsKey(q) ==
  setState(toggleIsEditing(q, TRUE),
           [field |-> "cancelIncrementKey", b |-> FALSE, n |-> 0])

startEditing(q) == toggleIsEditing(q, TRUE)

\* Mutant: stopEditing that also queues a raised key, as cancelEditing does.
stopEditing_RaisesKey(q) ==
  setState(toggleIsEditing(q, FALSE),
           [field |-> "cancelIncrementKey", b |-> FALSE,
            n |-> state.cancelIncrementKey + 1])

stopEditing(q) == toggleIsEditing(q, FALSE)

\* Mutant: cancelEditing without the increment of the key.
cancelEditing_SameKey(st, q) ==
  setState(stopEditing(q),
           [field |-> "cancelIncrementKey", b |-> FALSE, n |-> st.cancelIncrementKey])

\* cancelEditing: stopEditing(), then queue this.state.cancelIncrementKey + 1.
cancelEditing(st, q) ==
  LET cancelIncrementKey == st.cancelIncrementKey + 1
  IN setState(stopEditing(q),
              [field |-> "cancelIncrementKey", b |-> FALSE, n |-> cancelIncrementKey])

\* One queued partial state merged into the state.
mergePartial(st, p) ==
  IF p.field = "isEditing"
    THEN [st EXCEPT !.isEditing = p.b]
    ELSE [st EXCEPT !.cancelIncrementKey = p.n]

RECURSIVE flushState(_, _)
\* The queue merged into the state, oldest first.
flushState(st, q) ==
  IF q = <<>> THEN st ELSE flushState(mergePartial(st, Head(q)), Tail(q))

\* ------------------------------------------------------------ withSelect
\* Mutant: no ref is taken for temporary.
isTemporaryReusableBlock_Never(r) == FALSE

isTemporaryReusableBlock(r) == r.kind # "number"

\* Whether the user may update the fragment (canUser of the core store).
canUser(id) == id = 1

\* Fragment store: the entity record of a persisted id, if it is resolved.
getEntityRecord(id) ==
  IF id \in resolved THEN [id |-> id, content |-> entityContent[id]] ELSE Undefined

\* The props withSelect hands to ReusableBlockEdit (isSelected comes from the
\* block's wrapper: the reference block is the one selected block).
ownProps ==
  LET reusableBlock == IF ~isTemporaryReusableBlock(ref)
                         THEN getEntityRecord(ref.val) ELSE Undefined
  IN [reusableBlock |-> reusableBlock,
      isFetching |-> (ref.kind = "number" /\ ref.val \in fetching),
      canUpdateBlock |-> (/\ reusableBlock # Undefined
                          /\ ~isTemporaryReusableBlock(ref)
                          /\ canUser(ref.val)),
      isSelected |-> (parentSel = selectBlock("R"))]

\* ---------------------------------------------------------------- render
\* Mutant: the block list is never wrapped in Disabled.
render_NeverDisabled(p, st) ==
  IF p.reusableBlock = Undefined
    THEN [placeholder |-> IF p.isFetching THEN "spinner" ELSE "unavailable",
          key |-> Unmounted, post |-> Undefined,
          disabled |-> TRUE, templateLock |-> TRUE,
          panel |-> FALSE, panelIsEditing |-> FALSE, isEditDisabled |-> TRUE,
          indicator |-> FALSE]
    ELSE [placeholder |-> "none",
          key |-> st.cancelIncrementKey, post |-> p.reusableBlock,
          disabled |-> FALSE, templateLock |-> ~st.isEditing,
          panel |-> (p.isSelected \/ st.isEditing),
          panelIsEditing |-> st.isEditing,
          isEditDisabled |-> ~p.canUpdateBlock,
          indicator |-> (~p.isSelected /\ ~st.isEditing)]

\* Mutant: the placeholder is the loading indicator whether fetching or not.
render_AlwaysSpinner(p, st) ==
  IF p.reusableBlock = Undefined
    THEN [placeholder |-> "spinner",
          key |-> Unmounted, post |-> Undefined,
          disabled |-> TRUE, templateLock |-> TRUE,
          panel |-> FALSE, panelIsEditing |-> FALSE, isEditDisabled |-> TRUE,
          indicator |-> FALSE]
    ELSE [placeholder |-> "none",
          key |-> st.cancelIncrementKey, post |-> p.reusableBlock,
          disabled |-> ~st.isEditing, templateLock |-> ~st.isEditing,
          panel |-> (p.isSelected \/ st.isEditing),
          panelIsEditing |-> st.isEditing,
          isEditDisabled |-> ~p.canUpdateBlock,
          indicator |-> (~p.isSelected /\ ~st.isEditing)]

\* ReusableBlockEdit.render(): the placeholder, or the embedded editor.
render(p, st) ==
  IF p.reusableBlock = Undefined
    THEN [placeholder |-> IF p.isFetching THEN "spinner" ELSE "unavailable",
          key |-> Unmounted, post |-> Undefined,
          disabled |-> TRUE, templateLock |-> TRUE,
          panel |-> FALSE, panelIsEditing |-> FALSE, isEditDisabled |-> TRUE,
          indicator |-> FALSE]
    ELSE [placeholder |-> "none",
          key |-> st.cancelIncrementKey, post |-> p.reusableBlock,
          disabled |-> ~st.isEditing, templateLock |-> ~st.isEditing,
          panel |-> (p.isSelected \/ st.isEditing),
          panelIsEditing |-> st.isEditing,
          isEditDisabled |-> ~p.canUpdateBlock,
          indicator |-> (~p.isSelected /\ ~st.isEditing)]

\* EditorProvider on mount: the private tree is built from the post it is given.
setupEditor(post) == post.content

\* React's reconciliation of the rendered EditorProvider: it is unmounted when
\* the placeholder is rendered, mounted anew (with the SelectionObserver under it)
\* when it appears or its key changes, and otherwise kept as it is.
reconcile(prevKey, out, tree, obs, csel) ==
  IF out.key # Unmounted /\ out.key # prevKey
    THEN [mountedKey |-> out.key, privateTree |-> setupEditor(out.post),
          observerProps |-> hasSelectedBlock(csel)]
    ELSE [mountedKey |-> out.key, privateTree |-> tree, observerProps |-> obs]

\* A render pass after the stores or the state changed; obs is what the mounted
\* SelectionObserver last saw.
Rerender(obs) ==
  /\ rendered' = render(ownProps', state')
  /\ LET m == reconcile(mountedKey, rendered', privateTree, obs, childSel')
     IN /\ mountedKey' = m.mountedKey
        /\ privateTree' = m.privateTree
        /\ observerProps' = m.observerProps

\* ============================================================ conversion
\* The 'core/block-editor' store of the document and the reusable blocks of
\* the 'core/editor' store, as the conversion effects see them. A block is
\* [clientId, name, attributes, innerBlocks]; s is
\* [doc, detached, reusableBlocks, nextClientId, nextUniqueId, effects].

\* Blocks created or cloned while nextClientId is at most this.
MaxClientId == 14
\* Fragments created by uniqueId( 'reusable' ) while its counter is below this.
MaxUniqueId == 2
\* The longest multi-selection converted.
MaxSelection == 2

NoRef == [kind |-> "none", val |-> 0]
NoBlock == [clientId |-> -1, name |-> "", attributes |-> [ref |-> NoRef, name |-> ""],
            innerBlocks |-> <<>>]
NoFragment == [id |-> NoRef, clientId |-> -1, title |-> ""]

Range(f) == {f[i] : i \in DOMAIN f}

\* A block of the test type.
TestBlock(clientId, name, innerBlocks) ==
  [clientId |-> clientId, name |-> "core/test-block",
   attributes |-> [ref |-> NoRef, name |-> name], innerBlocks |-> innerBlocks]

\* createBlock( name, attributes, innerBlocks ): a block with a new clientId.
createBlock(clientId, name, attributes, innerBlocks) ==
  [clientId |-> clientId, name |-> name, attributes |-> attributes,
   innerBlocks |-> innerBlocks]

RECURSIVE cloneBlock(_, _)
RECURSIVE cloneBlocks(_, _)
\* cloneBlock( block ): a copy with a new clientId and clones of its inner
\* blocks; [block, next] with next the first clientId not used.
cloneBlock(block, next) ==
  LET inner == cloneBlocks(block.innerBlocks, next + 1)
  IN [block |-> [block EXCEPT !.clientId = next, !.innerBlocks = inner.blocks],
      next |-> inner.next]

\* innerBlocks.map( cloneBlock ).
cloneBlocks(bs, next) ==
  IF bs = <<>>
    THEN [blocks |-> <<>>, next |-> next]
    ELSE LET h == cloneBlock(Head(bs), next)
             t == cloneBlocks(Tail(bs), h.next)
         IN [blocks |-> <<h.block>> \o t.blocks, next |-> t.next]

RECURSIVE findIn(_, _)
\* The block with the clientId among the blocks and their descendants.
findIn(bs, clientId) ==
  IF bs = <<>> THEN NoBlock
  ELSE IF Head(bs).clientId = clientId THEN Head(bs)
  ELSE LET r == findIn(Head(bs).innerBlocks, clientId)
       IN IF r # NoBlock THEN r ELSE findIn(Tail(bs), clientId)

\* select( 'core/block-editor' ).getBlock( clientId ).
getBlock(s, clientId) ==
  LET r == findIn(s.doc, clientId)
  IN IF r # NoBlock THEN r ELSE findIn(s.detached, clientId)

\* select( 'core/block-editor' ).getBlocksByClientId( clientIds ).
getBlocksByClientId(s, clientIds) ==
  [i \in 1..Len(clientIds) |-> getBlock(s, clientIds[i])]

\* getReusableBlock( state, ref ).
getReusableBlock(s, id) ==
  IF \E r \in s.reusableBlocks : r.id = id
    THEN CHOOSE r \in s.reusableBlocks : r.id = id
    ELSE NoFragment

RECURSIVE replaceIn(_, _, _)
\* The blocks with the new blocks put where the first of clientIds is and the
\* other clientIds removed, at any depth.
replaceIn(bs, clientIds, new) ==
  IF bs = <<>> THEN <<>>
  ELSE LET h == Head(bs)
           rest == replaceIn(Tail(bs), clientIds, new)
       IN IF h.clientId = clientIds[1] THEN new \o rest
          ELSE IF h.clientId \in Range(clientIds) THEN rest
          ELSE <<[h EXCEPT !.innerBlocks = replaceIn(@, clientIds, new)]>> \o rest

\* dispatch( 'core/block-editor' ).replaceBlocks( clientIds, blocks ): the new
\* blocks take the place of the old ones, which leave the store.
replaceBlocks(s, clientIds, blocks) ==
  [s EXCEPT !.doc = replaceIn(@, clientIds, blocks),
            !.detached = replaceIn(@, clientIds, <<>>),
            !.effects = Append(@, [type |-> "replaceBlocks", clientIds |-> clientIds,
                                   blocks |-> blocks, fragment |-> NoFragment])]

\* dispatch( 'core/block-editor' ).receiveBlocks( blocks ): the blocks (with
\* their inner blocks) are known to the store, outside the document's order.
receiveBlocks(s, blocks) ==
  [s EXCEPT !.detached = SelectSeq(@, LAMBDA d :
                            \A i \in 1..Len(blocks) : blocks[i].clientId # d.clientId)
                          \o blocks,
            !.effects = Append(@, [type |-> "receiveBlocks", clientIds |-> <<>>,
                                   blocks |-> blocks, fragment |-> NoFragment])]

\* dispatch( receiveReusableBlocksAction( [ { reusableBlock, parsedBlock } ] ) ).
receiveReusableBlocks(s, reusableBlock, parsedBlock) ==
  [s EXCEPT !.reusableBlocks = {r \in @ : r.id # reusableBlock.id} \cup {reusableBlock},
            !.effects = Append(@, [type |-> "receiveReusableBlocks", clientIds |-> <<>>,
                                   blocks |-> <<parsedBlock>>, fragment |-> reusableBlock])]

\* dispatch( saveReusableBlock( id ) ).
saveReusableBlock(s, id) ==
  [s EXCEPT !.effects = Append(@, [type |-> "saveReusableBlock", clientIds |-> <<>>,
                                   blocks |-> <<>>,
                                   fragment |-> [NoFragment EXCEPT !.id = id]])]

\* Mutant: the counter's first value is returned every time.
uniqueId_Stuck(counter) == [kind |-> "string", val |-> 1]

\* uniqueId( 'reusable' ): the prefix and the next value of lodash's counter.
uniqueId(counter) == [kind |-> "string", val |-> counter + 1]

\* Mutant: the fragment's root is cloned whatever its name is.
convertBlockToStatic_NoUnwrap(action, s) ==
  LET oldBlock == getBlock(s, action.clientId)
      reusableBlock == getReusableBlock(s, oldBlock.attributes.ref)
      referencedBlock == getBlock(s, reusableBlock.clientId)
      cloned == cloneBlocks(<<referencedBlock>>, s.nextClientId)
  IN replaceBlocks([s EXCEPT !.nextClientId = cloned.next],
                   <<oldBlock.clientId>>, cloned.blocks)

\* Mutant: the fragment's blocks are put in the document as they are, not cloned.
convertBlockToStatic_NoClone(action, s) ==
  LET oldBlock == getBlock(s, action.clientId)
      reusableBlock == getReusableBlock(s, oldBlock.attributes.ref)
      referencedBlock == getBlock(s, reusableBlock.clientId)
      newBlocks == IF referencedBlock.name = "core/template"
                     THEN referencedBlock.innerBlocks
                     ELSE <<referencedBlock>>
  IN replaceBlocks(s, <<oldBlock.clientId>>, newBlocks)

\* Mutant: the fragment's content block leaves the store with the reference.
convertBlockToStatic_Consume(action, s) ==
  LET oldBlock == getBlock(s, action.clientId)
      reusableBlock == getReusableBlock(s, oldBlock.attributes.ref)
      referencedBlock == getBlock(s, reusableBlock.clientId)
      cloned == IF referencedBlock.name = "core/template"
                  THEN cloneBlocks(referencedBlock.innerBlocks, s.nextClientId)
                  ELSE cloneBlocks(<<referencedBlock>>, s.nextClientId)
  IN replaceBlocks([s EXCEPT !.nextClientId = cloned.next],
                   <<oldBlock.clientId, referencedBlock.clientId>>, cloned.blocks)

\* convertBlockToStatic( action, store ).
convertBlockToStatic(action, s) ==
  LET oldBlock == getBlock(s, action.clientId)
      reusableBlock == getReusableBlock(s, oldBlock.attributes.ref)
      referencedBlock == getBlock(s, reusableBlock.clientId)
      cloned == IF referencedBlock.name = "core/template"
                  THEN cloneBlocks(referencedBlock.innerBlocks, s.nextClientId)
                  ELSE cloneBlocks(<<referencedBlock>>, s.nextClientId)
      newBlocks == cloned.blocks
  IN replaceBlocks([s EXCEPT !.nextClientId = cloned.next],
                   <<oldBlock.clientId>>, newBlocks)

\* Mutant: a multi-selection is converted as its first block alone.
convertBlockToReusable_FirstOnly(action, s) ==
  LET parsedBlock == getBlock(s, action.clientIds[1])
      reusableBlock == [id |-> uniqueId(s.nextUniqueId),
                        clientId |-> parsedBlock.clientId,
                        title |-> "Untitled Reusable Block"]
      s2 == receiveReusableBlocks([s EXCEPT !.nextUniqueId = @ + 1],
                                  reusableBlock, parsedBlock)
      s3 == saveReusableBlock(s2, reusableBlock.id)
      s4 == replaceBlocks([s3 EXCEPT !.nextClientId = @ + 1], action.clientIds,
                          <<createBlock(s3.nextClientId, "core/block",
                                        [ref |-> reusableBlock.id, name |-> ""], <<>>)>>)
  IN receiveBlocks(s4, <<parsedBlock>>)

\* Mutant: the fragment's content is a clone of the single block converted.
convertBlockToReusable_Copy(action, s) ==
  LET single == Len(action.clientIds) = 1
      cloned == cloneBlock(getBlock(s, action.clientIds[1]), s.nextClientId)
      parsedBlock ==
        IF single
          THEN cloned.block
          ELSE createBlock(s.nextClientId, "core/template",
                           [ref |-> NoRef, name |-> ""],
                           getBlocksByClientId(s, action.clientIds))
      s1 == IF single THEN [s EXCEPT !.nextClientId = cloned.next]
            ELSE receiveBlocks([s EXCEPT !.nextClientId = @ + 1], <<parsedBlock>>)
      reusableBlock == [id |-> uniqueId(s.nextUniqueId),
                        clientId |-> parsedBlock.clientId,
                        title |-> "Untitled Reusable Block"]
      s2 == receiveReusableBlocks([s1 EXCEPT !.nextUniqueId = @ + 1],
                                  reusableBlock, parsedBlock)
      s3 == saveReusableBlock(s2, reusableBlock.id)
      s4 == replaceBlocks([s3 EXCEPT !.nextClientId = @ + 1], action.clientIds,
                          <<createBlock(s3.nextClientId, "core/block",
                                        [ref |-> reusableBlock.id, name |-> ""], <<>>)>>)
  IN receiveBlocks(s4, <<parsedBlock>>)

\* Mutant: the group block of a multi-selection holds clones of the blocks.
convertBlockToReusable_ClonedGroup(action, s) ==
  LET single == Len(action.clientIds) = 1
      cloned == cloneBlocks(getBlocksByClientId(s, action.clientIds),
                            s.nextClientId + 1)
      parsedBlock ==
        IF single
          THEN getBlock(s, action.clientIds[1])
          ELSE createBlock(s.nextClientId, "core/template",
                           [ref |-> NoRef, name |-> ""], cloned.blocks)
      s1 == IF single THEN s
            ELSE receiveBlocks([s EXCEPT !.nextClientId = cloned.next], <<parsedBlock>>)
      reusableBlock == [id |-> uniqueId(s.nextUniqueId),
                        clientId |-> parsedBlock.clientId,
                        title |-> "Untitled Reusable Block"]
      s2 == receiveReusableBlocks([s1 EXCEPT !.nextUniqueId = @ + 1],
                                  reusableBlock, parsedBlock)
      s3 == saveReusableBlock(s2, reusableBlock.id)
      s4 == replaceBlocks([s3 EXCEPT !.nextClientId = @ + 1], action.clientIds,
                          <<createBlock(s3.nextClientId, "core/block",
                                        [ref |-> reusableBlock.id, name |-> ""], <<>>)>>)
  IN receiveBlocks(s4, <<parsedBlock>>)

\* Mutant: the reference block is given the clientId of the fragment's content.
convertBlockToReusable_SharedId(action, s) ==
  LET single == Len(action.clientIds) = 1
      parsedBlock ==
        IF single
          THEN getBlock(s, action.clientIds[1])
          ELSE createBlock(s.nextClientId, "core/template",
                           [ref |-> NoRef, name |-> ""],
                           getBlocksByClientId(s, action.clientIds))
      s1 == IF single THEN s
            ELSE receiveBlocks([s EXCEPT !.nextClientId = @ + 1], <<parsedBlock>>)
      reusableBlock == [id |-> uniqueId(s.nextUniqueId),
                        clientId |-> parsedBlock.clientId,
                        title |-> "Untitled Reusable Block"]
      s2 == receiveReusableBlocks([s1 EXCEPT !.nextUniqueId = @ + 1],
                                  reusableBlock, parsedBlock)
      s3 == saveReusableBlock(s2, reusableBlock.id)
      s4 == replaceBlocks([s3 EXCEPT !.nextClientId = @ + 1], action.clientIds,
                          <<createBlock(parsedBlock.clientId, "core/block",
                                        [ref |-> reusableBlock.id, name |-> ""], <<>>)>>)
  IN receiveBlocks(s4, <<parsedBlock>>)

\* Mutant: the converted blocks are not replaced by the reference block.
convertBlockToReusable_KeepsOriginal(action, s) ==
  LET single == Len(action.clientIds) = 1
      parsedBlock ==
        IF single
          THEN getBlock(s, action.clientIds[1])
          ELSE createBlock(s.nextClientId, "core/template",
                           [ref |-> NoRef, name |-> ""],
                           getBlocksByClientId(s, action.clientIds))
      s1 == IF single THEN s
            ELSE receiveBlocks([s EXCEPT !.nextClientId = @ + 1], <<parsedBlock>>)
      reusableBlock == [id |-> uniqueId(s.nextUniqueId),
                        clientId |-> parsedBlock.clientId,
                        title |-> "Untitled Reusable Block"]
      s2 == receiveReusableBlocks([s1 EXCEPT !.nextUniqueId = @ + 1],
                                  reusableBlock, parsedBlock)
      s3 == saveReusableBlock(s2, reusableBlock.id)
  IN receiveBlocks(s3, <<parsedBlock>>)

\* Mutant: the save is dispatched before the fragment is registered.
convertBlockToReusable_SaveFirst(action, s) ==
  LET single == Len(action.clientIds) = 1
      parsedBlock ==
        IF single
          THEN getBlock(s, action.clientIds[1])
          ELSE createBlock(s.nextClientId, "core/template",
                           [ref |-> NoRef, name |-> ""],
                           getBlocksByClientId(s, action.clientIds))
      s1 == IF single THEN s
            ELSE receiveBlocks([s EXCEPT !.nextClientId = @ + 1], <<parsedBlock>>)
      reusableBlock == [id |-> uniqueId(s.nextUniqueId),
                        clientId |-> parsedBlock.clientId,
                        title |-> "Untitled Reusable Block"]
      s2 == saveReusableBlock([s1 EXCEPT !.nextUniqueId = @ + 1], reusableBlock.id)
      s3 == receiveReusableBlocks(s2, reusableBlock, parsedBlock)
      s4 == replaceBlocks([s3 EXCEPT !.nextClientId = @ + 1], action.clientIds,
                          <<createBlock(s3.nextClientId, "core/block",
                                        [ref |-> reusableBlock.id, name |-> ""], <<>>)>>)
  IN receiveBlocks(s4, <<parsedBlock>>)

\* convertBlockToReusable( action, store ).
convertBlockToReusable(action, s) ==
  LET single == Len(action.clientIds) = 1
      parsedBlock ==
        IF single
          THEN getBlock(s, action.clientIds[1])
          ELSE createBlock(s.nextClientId, "core/template",
                           [ref |-> NoRef, name |-> ""],
                           getBlocksByClientId(s, action.clientIds))
      s1 == IF single THEN s
            ELSE receiveBlocks([s EXCEPT !.nextClientId = @ + 1], <<parsedBlock>>)
      reusableBlock == [id |-> uniqueId(s.nextUniqueId),
                        clientId |-> parsedBlock.clientId,
                        title |-> "Untitled Reusable Block"]
      s2 == receiveReusableBlocks([s1 EXCEPT !.nextUniqueId = @ + 1],
                                  reusableBlock, parsedBlock)
      s3 == saveReusableBlock(s2, reusableBlock.id)
      s4 == replaceBlocks([s3 EXCEPT !.nextClientId = @ + 1], action.clientIds,
                          <<createBlock(s3.nextClientId, "core/block",
                                        [ref |-> reusableBlock.id, name |-> ""], <<>>)>>)
  IN receiveBlocks(s4, <<parsedBlock>>)

\* A call of convertBlockToStatic with whatever the selectors return: they
\* return null for what they do not hold, and reading oldBlock.attributes,
\* reusableBlock.clientId or referencedBlock.name of null throws a TypeError
\* before replaceBlocks is reached. [store, thrown], thrown "" for a return.
convertBlockToStaticCall(action, s) ==
  LET oldBlock == getBlock(s, action.clientId)
      reusableBlock == getReusableBlock(s, oldBlock.attributes.ref)
      referencedBlock == getBlock(s, reusableBlock.clientId)
  IN IF oldBlock = NoBlock \/ reusableBlock = NoFragment \/ referencedBlock = NoBlock
       THEN [store |-> s, thrown |-> "TypeError"]
       ELSE [store |-> convertBlockToStatic(action, s), thrown |-> ""]

\* A call of convertBlockToReusable with whatever the selectors return. With
\* one clientId, parsedBlock.clientId of null throws a TypeError before any
\* dispatch. With more, createBlock takes the selected blocks as they come,
\* null included, and receiveBlocks is dispatched with the group block; the
\* store's reducers then either take the group block (accepted), and the
\* effect runs to its end, or throw on its null inner block.
convertBlockToReusableCall(action, s, accepted) ==
  LET single == Len(action.clientIds) = 1
      selected == getBlocksByClientId(s, action.clientIds)
      parsedBlock == createBlock(s.nextClientId, "core/template",
                                 [ref |-> NoRef, name |-> ""], selected)
  IN IF single /\ selected[1] = NoBlock
       THEN [store |-> s, thrown |-> "TypeError"]
     ELSE IF ~single /\ NoBlock \in Range(selected) /\ ~accepted
       THEN [store |-> [s EXCEPT !.nextClientId = @ + 1,
                                 !.effects = Append(@, [type |-> "receiveBlocks",
                                                        clientIds |-> <<>>,
                                                        blocks |-> <<parsedBlock>>,
                                                        fragment |-> NoFragment])],
             thrown |-> "TypeError"]
     ELSE [store |-> convertBlockToReusable(action, s), thrown |-> ""]

\* ---------------------------------------------------------------- template
\* A template is a list of entries [name, attributes, innerBlocks], innerBlocks
\* the template of the inner blocks.

\* Templates of at most this many entries.
MaxTemplate == 2
\* Blocks are created from a template while nextClientId is at most this.
MaxSyncId == 10

RECURSIVE createBlocksFromTemplate(_, _)
\* A new block for each entry of the template, with the entry's name and
\* attributes and new inner blocks from its inner template; [blocks, next].
createBlocksFromTemplate(template, next) ==
  IF template = <<>>
    THEN [blocks |-> <<>>, next |-> next]
    ELSE LET inner == createBlocksFromTemplate(Head(template).innerBlocks, next + 1)
             t == createBlocksFromTemplate(Tail(template), inner.next)
         IN [blocks |-> <<createBlock(next, Head(template).name,
                                      Head(template).attributes, inner.blocks)>>
                          \o t.blocks,
             next |-> t.next]

RECURSIVE synchronizeBlocksWithTemplate_ByPosition(_, _, _)
\* Mutant: the block at an entry's position is kept whatever its name is.
synchronizeBlocksWithTemplate_ByPosition(blocks, template, next) ==
  IF template = <<>>
    THEN [blocks |-> <<>>, next |-> next]
    ELSE LET h == IF blocks # <<>>
                    THEN [blocks |-> <<Head(blocks)>>, next |-> next]
                    ELSE createBlocksFromTemplate(<<Head(template)>>, next)
             t == synchronizeBlocksWithTemplate_ByPosition(
                    IF blocks = <<>> THEN <<>> ELSE Tail(blocks),
                    Tail(template), h.next)
         IN [blocks |-> h.blocks \o t.blocks, next |-> t.next]

\* Mutant: a new block is created for every entry, matching block or not.
synchronizeBlocksWithTemplate_Recreate(blocks, template, next) ==
  createBlocksFromTemplate(template, next)

RECURSIVE synchronizeBlocksWithTemplate(_, _, _)
\* synchronizeBlocksWithTemplate( blocks, template ): for each entry of the
\* template, the block at its position kept as it is if it has the entry's
\* name, else a new block created from the entry; [blocks, next].
synchronizeBlocksWithTemplate(blocks, template, next) ==
  IF template = <<>>
    THEN [blocks |-> <<>>, next |-> next]
    ELSE LET matches == blocks # <<>> /\ Head(blocks).name = Head(template).name
             h == IF matches
                    THEN [blocks |-> <<Head(blocks)>>, next |-> next]
                    ELSE createBlocksFromTemplate(<<Head(template)>>, next)
             t == synchronizeBlocksWithTemplate(
                    IF blocks = <<>> THEN <<>> ELSE Tail(blocks),
                    Tail(template), h.next)
         IN [blocks |-> h.blocks \o t.blocks, next |-> t.next]

\* No block list is being synchronized.
NoSync == [blocks |-> <<>>, template |-> <<>>, result |-> <<>>,
           synchronized |-> FALSE, nextClientId |-> 8]

\* ------------------------------------------------------------------ Init
\* The child registry's store holds no blocks before an EditorProvider mounts.
EmptyTree == -1

\* Documents of test blocks and of reference blocks to the persisted
\* fragment 123, whose content is a block with an inner block; the last
\* document holds the fragment twice.
InitialDocs ==
  LET bigBird == TestBlock(1, "Big Bird", <<TestBlock(2, "Oscar the Grouch", <<>>),
                                            TestBlock(3, "Cookie Monster", <<>>)>>)
      elmo == TestBlock(4, "Elmo", <<>>)
      reference == createBlock(7, "core/block",
                               [ref |-> [kind |-> "number", val |-> 123], name |-> ""],
                               <<>>)
      again == [reference EXCEPT !.clientId = 4]
  IN {<<bigBird, elmo, reference>>, <<elmo, reference, bigBird>>,
      <<reference, elmo>>, <<bigBird, elmo>>, <<reference, again>>}

InitialStore(doc) ==
  [doc |-> doc,
   detached |-> <<TestBlock(5, "Grover", <<TestBlock(6, "Ernie", <<>>)>>)>>,
   reusableBlocks |-> {[id |-> [kind |-> "number", val |-> 123], clientId |-> 5,
                        title |-> "My cool block"]},
   nextClientId |-> 8,
   nextUniqueId |-> 0,
   effects |-> <<>>]

NoAction == [type |-> "", clientIds |-> <<>>, thrown |-> ""]

\* The component as constructed and first rendered: Locked, key 0, no guard.
SessionInit ==
  /\ state = [isEditing |-> FALSE, cancelIncrementKey |-> 0]
  /\ pending = <<>>
  /\ isSelectingInnerBlock = FALSE
  /\ parentSel = NoSelection
  /\ props = selectionProps(NoSelection)
  /\ childSel = NoSelection
  /\ ref \in Refs
  /\ resolved \in SUBSET PersistedIds
  /\ fetching = {}
  /\ entityContent = [i \in PersistedIds |-> IF i = 1 THEN 0 ELSE 1]
  /\ rendered = render(ownProps, state)
  /\ LET m == reconcile(Unmounted, rendered, EmptyTree, FALSE, childSel)
     IN /\ mountedKey = m.mountedKey
        /\ privateTree = m.privateTree
        /\ observerProps = m.observerProps
  /\ calls = <<>>

\* The embedded editor of one reference block; the document is not converted.
Init ==
  /\ SessionInit
  /\ store = InitialStore(CHOOSE doc \in InitialDocs : Len(doc) = 2 /\ doc[1].clientId = 7)
  /\ lastAction = NoAction
  /\ sync = NoSync

\* ------------------------------------------------------------ settledness
\* SelectionObserver has an update to run: its mapped prop changed.
ObserverPending ==
  mountedKey # Unmounted /\ observerProps # hasSelectedBlock(childSel)

\* ReusableBlockEdit has a componentDidUpdate to run for a selection change.
ComponentPending == props # selectionProps(parentSel)

\* No reaction is outstanding and no state is queued.
Settled == pending = <<>> /\ ~ObserverPending /\ ~ComponentPending

\* --------------------------------------------------------------- events
\* The parent editor's selection changes (a block selected, a multi-selection,
\* or the selection cleared); ReusableBlockEdit re-renders with the new props.
ParentSelectionChange(sel) ==
  /\ UNCHANGED <<conversionVars, templateVars>>
  /\ Settled
  /\ sel # parentSel
  /\ parentSel' = sel
  /\ calls' = <<>>
  /\ UNCHANGED <<state, pending, isSelectingInnerBlock, props, childSel, ref,
                 resolved, fetching, entityContent>>
  /\ Rerender(observerProps)

\* A block of the embedded editor is selected (or its selection cleared) by the
\* user; the block list must be rendered and not wrapped in Disabled.
ChildSelectionChange(sel) ==
  /\ UNCHANGED <<conversionVars, templateVars>>
  /\ Settled
  /\ mountedKey # Unmounted
  /\ ~rendered.disabled
  /\ sel # childSel
  /\ childSel' = sel
  /\ calls' = <<>>
  /\ UNCHANGED <<state, pending, isSelectingInnerBlock, props, parentSel,
                 observerProps, ref, resolved, fetching, entityContent,
                 mountedKey, privateTree, rendered>>

\* SelectionObserver updates with the child store's new hasSelectedBlock.
ObserverDidUpdate ==
  /\ UNCHANGED <<conversionVars, templateVars>>
  /\ ObserverPending
  /\ LET has == hasSelectedBlock(childSel)
         c == SelectionObserverDidUpdate(observerProps, has,
                [guard |-> isSelectingInnerBlock, parentSel |-> parentSel,
                 childSel |-> childSel, calls |-> calls])
     IN /\ isSelectingInnerBlock' = c.guard
        /\ parentSel' = c.parentSel
        /\ childSel' = c.childSel
        /\ calls' = c.calls
  /\ UNCHANGED <<state, pending, props, ref, resolved, fetching, entityContent>>
  /\ Rerender(hasSelectedBlock(childSel))

\* ReusableBlockEdit updates with the parent store's new selection range.
ReusableBlockEditDidUpdate ==
  /\ UNCHANGED <<conversionVars, templateVars>>
  /\ ComponentPending
  /\ LET c == componentDidUpdate(props, selectionProps(parentSel),
                [guard |-> isSelectingInnerBlock, parentSel |-> parentSel,
                 childSel |-> childSel, calls |-> calls])
     IN /\ isSelectingInnerBlock' = c.guard
        /\ parentSel' = c.parentSel
        /\ childSel' = c.childSel
        /\ calls' = c.calls
  /\ props' = selectionProps(parentSel)
  /\ UNCHANGED <<state, pending, observerProps, ref, resolved, fetching,
                 entityContent, mountedKey, privateTree, rendered>>

\* The log with a panel handler's call added: a new log, unless calls are queued
\* already or the handler directly follows an edit.
logCall(log, q, name) ==
  IF q = <<>> /\ log # <<"edit">> THEN <<name>> ELSE Append(log, name)

\* A handler of the edit panel may run: no reaction is outstanding and the
\* setState queue has room.
PanelReady ==
  /\ ~ObserverPending
  /\ ~ComponentPending
  /\ Len(pending) < MaxPending
  /\ rendered.panel

\* The panel's onEdit.
StartEditing ==
  /\ UNCHANGED <<conversionVars, templateVars>>
  /\ PanelReady
  /\ ~rendered.panelIsEditing
  /\ ~rendered.isEditDisabled
  /\ pending' = startEditing(pending)
  /\ calls' = logCall(calls, pending, "startEditing")
  /\ UNCHANGED <<state, isSelectingInnerBlock, props, parentSel, childSel,
                 observerProps, ref, resolved, fetching, entityContent,
                 mountedKey, privateTree, rendered>>

\* The panel's onSave.
StopEditing ==
  /\ UNCHANGED <<conversionVars, templateVars>>
  /\ PanelReady
  /\ rendered.panelIsEditing
  /\ pending' = stopEditing(pending)
  /\ calls' = logCall(calls, pending, "stopEditing")
  /\ UNCHANGED <<state, isSelectingInnerBlock, props, parentSel, childSel,
                 observerProps, ref, resolved, fetching, entityContent,
                 mountedKey, privateTree, rendered>>

\* The panel's onCancel.
CancelEditing ==
  /\ UNCHANGED <<conversionVars, templateVars>>
  /\ PanelReady
  /\ rendered.panelIsEditing
  /\ state.cancelIncrementKey < MaxCancel
  /\ pending' = cancelEditing(state, pending)
  /\ calls' = logCall(calls, pending, "cancelEditing")
  /\ UNCHANGED <<state, isSelectingInnerBlock, props, parentSel, childSel,
                 observerProps, ref, resolved, fetching, entityContent,
                 mountedKey, privateTree, rendered>>

\* React flushes the queued partial states and renders.
FlushState ==
  /\ UNCHANGED <<conversionVars, templateVars>>
  /\ pending # <<>>
  /\ state' = flushState(state, pending)
  /\ pending' = <<>>
  /\ UNCHANGED <<isSelectingInnerBlock, props, parentSel, childSel, ref,
                 resolved, fetching, entityContent, calls>>
  /\ Rerender(observerProps)

\* The user edits the blocks of the embedded editor.
EditPrivateTree(c) ==
  /\ UNCHANGED <<conversionVars, templateVars>>
  /\ Settled
  /\ mountedKey # Unmounted
  /\ ~rendered.disabled
  /\ c # privateTree
  /\ privateTree' = c
  /\ calls' = <<"edit">>
  /\ UNCHANGED <<state, pending, isSelectingInnerBlock, props, parentSel,
                 childSel, observerProps, ref, resolved, fetching,
                 entityContent, mountedKey, rendered>>

\* The persistence step after a save: the private tree becomes the fragment's
\* committed content.
PersistContent ==
  /\ UNCHANGED <<conversionVars, templateVars>>
  /\ Settled
  /\ mountedKey # Unmounted
  /\ ~state.isEditing
  /\ entityContent[ref.val] # privateTree
  /\ entityContent' = [entityContent EXCEPT ![ref.val] = privateTree]
  /\ calls' = <<>>
  /\ UNCHANGED <<state, pending, isSelectingInnerBlock, props, parentSel,
                 childSel, ref, resolved, fetching>>
  /\ Rerender(observerProps)

\* The resolution of getEntityRecord for a persisted id starts.
FetchStart(id) ==
  /\ UNCHANGED <<conversionVars, templateVars>>
  /\ Settled
  /\ ref = [kind |-> "number", val |-> id]
  /\ id \notin resolved
  /\ id \notin fetching
  /\ fetching' = fetching \cup {id}
  /\ calls' = <<>>
  /\ UNCHANGED <<state, pending, isSelectingInnerBlock, props, parentSel,
                 childSel, ref, resolved, entityContent>>
  /\ Rerender(observerProps)

\* Mutant: the end of a resolution takes the session back to Locked.
FetchEnd_StopsEditing(id, found) ==
  /\ UNCHANGED <<conversionVars, templateVars>>
  /\ Settled
  /\ id \in fetching
  /\ fetching' = fetching \ {id}
  /\ resolved' = IF found THEN resolved \cup {id} ELSE resolved
  /\ calls' = <<>>
  /\ state' = [state EXCEPT !.isEditing = FALSE]
  /\ UNCHANGED <<pending, isSelectingInnerBlock, props, parentSel,
                 childSel, ref, entityContent>>
  /\ Rerender(observerProps)

\* The resolution ends with the record, or without one.
FetchEnd(id, found) ==
  /\ UNCHANGED <<conversionVars, templateVars>>
  /\ Settled
  /\ id \in fetching
  /\ fetching' = fetching \ {id}
  /\ resolved' = IF found THEN resolved \cup {id} ELSE resolved
  /\ calls' = <<>>
  /\ UNCHANGED <<state, pending, isSelectingInnerBlock, props, parentSel,
                 childSel, ref, entityContent>>
  /\ Rerender(observerProps)

\* The fragment is deleted: its record leaves the core store.
EntityRemoved(id) ==
  /\ UNCHANGED <<conversionVars, templateVars>>
  /\ Settled
  /\ id \in resolved
  /\ resolved' = resolved \ {id}
  /\ calls' = <<>>
  /\ UNCHANGED <<state, pending, isSelectingInnerBlock, props, parentSel,
                 childSel, ref, fetching, entityContent>>
  /\ Rerender(observerProps)

\* The reference block's ref attribute is set to another fragment id.
ChangeRef(r) ==
  /\ UNCHANGED <<conversionVars, templateVars>>
  /\ Settled
  /\ r # ref
  /\ ref' = r
  /\ calls' = <<>>
  /\ UNCHANGED <<state, pending, isSelectingInnerBlock, props, parentSel,
                 childSel, resolved, fetching, entityContent>>
  /\ Rerender(observerProps)

ParentSelections ==
  {NoSelection} \cup {selectBlock(id) : id \in ParentIds}
    \cup {multiSelect("R", "X")}

ChildSelections == {NoSelection} \cup {selectBlock(id) : id \in ChildIds}

Next ==
  \/ \E sel \in ParentSelections : ParentSelectionChange(sel)
  \/ \E sel \in ChildSelections : ChildSelectionChange(sel)
  \/ ObserverDidUpdate
  \/ ReusableBlockEditDidUpdate
  \/ StartEditing
  \/ StopEditing
  \/ CancelEditing
  \/ FlushState
  \/ \E c \in Contents : EditPrivateTree(c)
  \/ PersistContent
  \/ \E id \in PersistedIds : FetchStart(id)
  \/ \E id \in PersistedIds, found \in BOOLEAN : FetchEnd(id, found)
  \/ \E id \in PersistedIds : EntityRemoved(id)
  \/ \E r \in Refs : ChangeRef(r)

Spec == Init /\ [][Next]_vars

\* ------------------------------------------------------ conversion effects
\* The clientIds of the document's top-level blocks, in order.
DocIds == [i \in 1..Len(store.doc) |-> store.doc[i].clientId]

\* The runs of neighbouring top-level blocks a selection can cover.
Selections ==
  {SubSeq(DocIds, i, j) : i \in 1..Len(DocIds), j \in 1..Len(DocIds)}
    \ {<<>>}

\* CONVERT_BLOCK_TO_STATIC for a reference block of the document whose fragment
\* and content block are in the stores.
ConvertBlockToStatic(clientId) ==
  /\ getBlock(store, clientId).name = "core/block"
  /\ LET reusableBlock == getReusableBlock(store, getBlock(store, clientId).attributes.ref)
     IN /\ reusableBlock # NoFragment
        /\ getBlock(store, reusableBlock.clientId) # NoBlock
  /\ LET action == [type |-> "CONVERT_BLOCK_TO_STATIC", clientIds |-> <<clientId>>,
                    clientId |-> clientId]
         s == convertBlockToStatic(action, [store EXCEPT !.effects = <<>>])
     IN /\ s.nextClientId <= MaxClientId + 1
        /\ store' = s
        /\ lastAction' = [type |-> action.type, clientIds |-> action.clientIds,
                          thrown |-> ""]
  /\ UNCHANGED <<sessionVars, templateVars>>

\* CONVERT_BLOCK_TO_REUSABLE for a selection of the document's blocks.
ConvertBlockToReusable(clientIds) ==
  /\ Len(clientIds) <= MaxSelection
  /\ store.nextUniqueId < MaxUniqueId
  /\ LET action == [type |-> "CONVERT_BLOCK_TO_REUSABLE", clientIds |-> clientIds]
         s == convertBlockToReusable(action, [store EXCEPT !.effects = <<>>])
     IN /\ s.nextClientId <= MaxClientId + 1
        /\ store' = s
        /\ lastAction' = [type |-> action.type, clientIds |-> action.clientIds,
                          thrown |-> ""]
  /\ UNCHANGED <<sessionVars, templateVars>>

NextConvert ==
  \/ \E clientId \in Range(DocIds) : ConvertBlockToStatic(clientId)
  \/ \E clientIds \in Selections : ConvertBlockToReusable(clientIds)

\* The conversions alone, from each initial document, the embedded editor idle.
InitConvert ==
  /\ SessionInit
  /\ ref = [kind |-> "number", val |-> 1]
  /\ resolved = {}
  /\ store \in {InitialStore(doc) : doc \in InitialDocs}
  /\ lastAction = NoAction
  /\ sync = NoSync

SpecConvert == InitConvert /\ [][NextConvert]_vars

\* ------------------------------------------- conversions that do not resolve
\* A clientId no block of the store has: its block was removed.
StaleClientIds == {0}

\* Selections that name a block the store does not hold.
StaleSelections ==
  {<<stale>> : stale \in StaleClientIds}
    \cup {<<id, stale>> : id \in Range(DocIds), stale \in StaleClientIds}
    \cup {<<stale, id>> : id \in Range(DocIds), stale \in StaleClientIds}

\* CONVERT_BLOCK_TO_STATIC for a clientId whose block, fragment or fragment
\* content the selectors do not return.
ConvertBlockToStaticUnresolved(clientId) ==
  /\ LET action == [type |-> "CONVERT_BLOCK_TO_STATIC", clientIds |-> <<clientId>>,
                    clientId |-> clientId]
         call == convertBlockToStaticCall(action, [store EXCEPT !.effects = <<>>])
     IN /\ call.thrown # ""
        /\ store' = call.store
        /\ lastAction' = [type |-> action.type, clientIds |-> action.clientIds,
                          thrown |-> call.thrown]
  /\ UNCHANGED <<sessionVars, templateVars>>

\* CONVERT_BLOCK_TO_REUSABLE for a selection with a clientId whose block the
\* store does not hold.
ConvertBlockToReusableUnresolved(clientIds, accepted) ==
  /\ Len(clientIds) <= MaxSelection
  /\ store.nextUniqueId < MaxUniqueId
  /\ NoBlock \in Range(getBlocksByClientId(store, clientIds))
  /\ LET action == [type |-> "CONVERT_BLOCK_TO_REUSABLE", clientIds |-> clientIds]
         call == convertBlockToReusableCall(action, [store EXCEPT !.effects = <<>>],
                                            accepted)
     IN /\ call.store.nextClientId <= MaxClientId + 1
        /\ store' = call.store
        /\ lastAction' = [type |-> action.type, clientIds |-> action.clientIds,
                          thrown |-> call.thrown]
  /\ UNCHANGED <<sessionVars, templateVars>>

NextDispatch ==
  \/ \E clientId \in Range(DocIds) : ConvertBlockToStatic(clientId)
  \/ \E clientIds \in Selections : ConvertBlockToReusable(clientIds)
  \/ \E clientId \in Range(DocIds) \cup StaleClientIds :
       ConvertBlockToStaticUnresolved(clientId)
  \/ \E clientIds \in StaleSelections, accepted \in BOOLEAN :
       ConvertBlockToReusableUnresolved(clientIds, accepted)

\* A store whose document has a reference block and a test block, as it is
\* and with the reference not resolving: its fragment is not registered, or
\* the fragment's content block is not held.
UnresolvedStores ==
  LET s == InitialStore(CHOOSE doc \in InitialDocs :
                          Len(doc) = 2 /\ doc[1].clientId = 7 /\ doc[2].clientId = 4
                            /\ doc[2].name = "core/test-block")
  IN {s, [s EXCEPT !.reusableBlocks = {}], [s EXCEPT !.detached = <<>>]}

\* The conversions dispatched with any clientIds, from a document whose
\* reference resolves or not.
InitDispatch ==
  /\ SessionInit
  /\ ref = [kind |-> "number", val |-> 1]
  /\ resolved = {}
  /\ store \in UnresolvedStores
  /\ lastAction = NoAction
  /\ sync = NoSync

SpecDispatch == InitDispatch /\ [][NextDispatch]_vars

\* ------------------------------------------------------ template locking
\* The entries templates are made of: a test block, a reference block, and a
\* test block with an inner template.
TemplateEntries ==
  LET bird == [name |-> "core/test-block",
               attributes |-> [ref |-> NoRef, name |-> "Big Bird"],
               innerBlocks |-> <<>>]
      reference == [name |-> "core/block",
                    attributes |-> [ref |-> [kind |-> "number", val |-> 123],
                                    name |-> ""],
                    innerBlocks |-> <<>>]
  IN {bird, reference, [bird EXCEPT !.attributes.name = "Elmo",
                                    !.innerBlocks = <<bird>>]}

Templates ==
  UNION {[1..n -> TemplateEntries] : n \in 0..MaxTemplate}

\* The block list is synchronized with the template.
SynchronizeBlocks ==
  /\ ~sync.synchronized
  /\ LET r == synchronizeBlocksWithTemplate(sync.blocks, sync.template,
                                            sync.nextClientId)
     IN /\ r.next <= MaxSyncId + 1
        /\ sync' = [sync EXCEPT !.result = r.blocks, !.nextClientId = r.next,
                                !.synchronized = TRUE]
  /\ UNCHANGED <<sessionVars, conversionVars>>

\* The synchronized list becomes the block list.
ReplaceInnerBlocks ==
  /\ sync.synchronized
  /\ sync' = [sync EXCEPT !.blocks = sync.result, !.result = <<>>,
                          !.synchronized = FALSE]
  /\ UNCHANGED <<sessionVars, conversionVars>>

\* Another template is set for the block list.
SetTemplate(template) ==
  /\ ~sync.synchronized
  /\ template # sync.template
  /\ sync' = [sync EXCEPT !.template = template]
  /\ UNCHANGED <<sessionVars, conversionVars>>

NextTemplate ==
  \/ SynchronizeBlocks
  \/ ReplaceInnerBlocks
  \/ \E template \in Templates : SetTemplate(template)

\* A document or no blocks, and any template.
InitTemplate ==
  /\ SessionInit
  /\ ref = [kind |-> "number", val |-> 1]
  /\ resolved = {}
  /\ store = InitialStore(CHOOSE doc \in InitialDocs :
                            Len(doc) = 2 /\ doc[1].clientId = 7 /\ doc[2].clientId = 4
                              /\ doc[2].name = "core/test-block")
  /\ lastAction = NoAction
  /\ sync \in {[NoSync EXCEPT !.blocks = blocks, !.template = template] :
                 blocks \in InitialDocs \cup {<<>>}, template \in Templates}

SpecTemplate == InitTemplate /\ [][NextTemplate]_vars

\* ------------------------------------------------------- the two editors
\* An editing session on a resolved fragment, with the parent document being
\* converted meanwhile: the embedded editor's stores are those of the registry
\* the constructor created, the conversions dispatch to the parent's.
NextIsolation ==
  \/ \E sel \in ParentSelections : ParentSelectionChange(sel)
  \/ \E sel \in ChildSelections : ChildSelectionChange(sel)
  \/ ObserverDidUpdate
  \/ ReusableBlockEditDidUpdate
  \/ StartEditing
  \/ StopEditing
  \/ CancelEditing
  \/ FlushState
  \/ \E c \in Contents : EditPrivateTree(c)
  \/ \E clientIds \in Selections : ConvertBlockToReusable(clientIds)

InitIsolation ==
  /\ SessionInit
  /\ ref = [kind |-> "number", val |-> 1]
  /\ resolved = {1}
  /\ store = InitialStore(CHOOSE doc \in InitialDocs :
                            Len(doc) = 2 /\ doc[1].clientId = 7 /\ doc[2].clientId = 4
                              /\ doc[2].name = "core/test-block")
  /\ lastAction = NoAction
  /\ sync = NoSync

SpecIsolation == InitIsolation /\ [][NextIsolation]_vars

\* ------------------------------------------- the editor of a new reference
\* The refs of the document's reference blocks to fragments a conversion made.
NewRefs ==
  {store.doc[k].attributes.ref : k \in {i \in 1..Len(store.doc) :
      /\ store.doc[i].name = "core/block"
      /\ getReusableBlock(store, store.doc[i].attributes.ref) # NoFragment
      /\ store.doc[i].attributes.ref.kind = "string"}}

\* Blocks of the document are converted, and the reference block edited is one
\* of the document's new reference blocks or of a persisted fragment.
NextTemporary ==
  \/ \E clientIds \in Selections : ConvertBlockToReusable(clientIds)
  \/ \E r \in Refs \cup NewRefs : ChangeRef(r)
  \/ \E sel \in ParentSelections : ParentSelectionChange(sel)
  \/ ReusableBlockEditDidUpdate
  \/ \E id \in PersistedIds : FetchStart(id)
  \/ \E id \in PersistedIds, found \in BOOLEAN : FetchEnd(id, found)

InitTemporary ==
  /\ SessionInit
  /\ ref = [kind |-> "number", val |-> 1]
  /\ store = InitialStore(CHOOSE doc \in InitialDocs :
                            Len(doc) = 2 /\ doc[1].clientId = 7 /\ doc[2].clientId = 4
                              /\ doc[2].name = "core/test-block")
  /\ lastAction = NoAction
  /\ sync = NoSync

SpecTemporary == InitTemporary /\ [][NextTemporary]_vars

\* ============================================================ properties
\* The fragment's committed content, as the rendered editor was given it.
Committed == ownProps.reusableBlock.content

\* The step is a run of ReusableBlockEdit.componentDidUpdate that saw the
\* selection range changed.
HandlesSelectionChange == props' # props

\* The parent's selection change being handled came from onInnerBlockSelected.
CausedByInnerSelection ==
  \E i \in 1..Len(calls) : calls[i] = "props.clearSelectedBlock"

\* The number of times name occurs in the log.
Count(log, name) == Cardinality({i \in 1..Len(log) : log[i] = name})

\* The step flushes the setState queue.
Flushes == pending # <<>> /\ pending' = <<>>

\* C1: at every settled point at most one of the parent selection and the
\* child selection is non-empty.
C1_SelectionExclusivity ==
  Settled => ~(hasSelectedBlock(parentSel) /\ hasSelectedBlock(childSel))

\* C2: every change of the parent's selection range that onInnerBlockSelected
\* did not cause gets clearSelectedBlock dispatched on the child registry, and
\* the child's selection is empty afterwards.
C2_ExternalChangeClearsChild ==
  [][(HandlesSelectionChange /\ ~CausedByInnerSelection)
       => /\ childSel' = NoSelection
          /\ calls'[Len(calls')] = "registry.clearSelectedBlock"]_vars

\* C3: the guard is consumed by the reaction to the child-initiated clear that
\* set it: when a parent selection change is handled, the guard is set exactly
\* if that change was caused by onInnerBlockSelected, and it is never left set.
C3_GuardConsumedOnce ==
  [][HandlesSelectionChange
       => /\ isSelectingInnerBlock <=> CausedByInnerSelection
          /\ ~isSelectingInnerBlock']_vars

\* The step calls onBlockSelected.
CallsOnBlockSelected ==
  Len(calls') > Len(calls) /\ calls'[Len(calls) + 1] = "onBlockSelected"

\* C4: onBlockSelected is called exactly when the mounted observer's
\* hasSelectedBlock goes from false to true between two updates, and the call
\* sets the guard first and then clears the parent's selection.
C4_ObserverCallsOnSelect ==
  [][/\ CallsOnBlockSelected
          <=> (/\ mountedKey # Unmounted
               /\ mountedKey' = mountedKey
               /\ ~observerProps
               /\ observerProps')
     /\ CallsOnBlockSelected
          => /\ calls' = calls \o <<"onBlockSelected",
                                    "isSelectingInnerBlock = true",
                                    "props.clearSelectedBlock">>
             /\ isSelectingInnerBlock'
             /\ parentSel' = NoSelection]_vars

\* C4 witness: the observer has called onBlockSelected and the reaction settled.
C4_Witness ==
  /\ Settled
  /\ Len(calls) >= 3
  /\ calls[1] = "onBlockSelected"
  /\ hasSelectedBlock(childSel)

\* C5: the session starts Locked with key 0; isEditing changes only when the
\* calls of startEditing, stopEditing and cancelEditing are flushed: a start
\* takes Locked to Editing, a stop or a cancel takes Editing to Locked.
C5_SessionStates ==
  /\ state = [isEditing |-> FALSE, cancelIncrementKey |-> 0]
  /\ [][/\ state'.isEditing # state.isEditing => Flushes
        /\ (Flushes /\ Count(calls, "startEditing") > 0)
             => (~state.isEditing /\ state'.isEditing)
        /\ (Flushes /\ Count(calls, "stopEditing") > 0)
             => (state.isEditing /\ ~state'.isEditing)
        /\ (Flushes /\ Count(calls, "cancelEditing") > 0)
             => (state.isEditing /\ ~state'.isEditing)]_vars

\* C5 witness: Editing again after a cancel took the session back to Locked.
C5_Witness ==
  /\ pending = <<>>
  /\ state.isEditing
  /\ state.cancelIncrementKey = 1
  /\ calls = <<"startEditing">>

\* C6: every call of cancelEditing leaves isEditing false and raises
\* cancelIncrementKey by exactly 1, so the n calls flushed together raise it by n.
C6_EachCancelRaisesByOne ==
  [][Flushes
       => /\ state'.cancelIncrementKey
               = state.cancelIncrementKey + Count(calls, "cancelEditing")
          /\ Count(calls, "cancelEditing") > 0 => ~state'.isEditing]_vars

\* C7: once a cancel is flushed the editing surface is mounted anew under the
\* new key and the private tree is the fragment's committed content, whatever
\* it was edited to.
C7_CancelResetsContent ==
  [][(Flushes /\ Count(calls, "cancelEditing") > 0)
       => /\ mountedKey' = state'.cancelIncrementKey
          /\ mountedKey' # mountedKey
          /\ privateTree' = Committed']_vars

\* C7 witness: an edit away from the committed content, then a cancel, flushed.
C7_Witness ==
  /\ calls = <<"edit", "cancelEditing">>
  /\ pending = <<>>
  /\ ~state.isEditing
  /\ mountedKey = state.cancelIncrementKey
  /\ privateTree = Committed

\* C8: with a resolved fragment rendered, the block list is wrapped in Disabled
\* and the template is locked exactly when isEditing is false; the private tree
\* changes only by an edit made while Editing or by being rebuilt on a mount.
C8_StructuralLock ==
  /\ [](rendered.placeholder = "none"
          => /\ rendered.disabled = ~state.isEditing
             /\ rendered.templateLock = ~state.isEditing)
  /\ [][privateTree' # privateTree
          => \/ state.isEditing /\ ~rendered.disabled /\ calls' = <<"edit">>
             \/ mountedKey' # mountedKey /\ privateTree' = Committed']_vars

\* C8 witness: an edit was accepted while Editing.
C8_Witness ==
  /\ calls = <<"edit">>
  /\ state.isEditing
  /\ ~rendered.templateLock
  /\ privateTree # Committed

\* C9: whenever the fragment the reference resolves to changes to another
\* resolved fragment, the private tree is rebuilt from that fragment's content.
C9_RebuiltOnIdentityChange ==
  [][(/\ ownProps'.reusableBlock # Undefined
      /\ ownProps'.reusableBlock.id # ownProps.reusableBlock.id)
       => privateTree' = Committed']_vars

RECURSIVE SameShape(_, _)
\* Two blocks agree in name, attributes and, recursively, inner blocks.
SameShape(a, b) ==
  /\ a.name = b.name
  /\ a.attributes = b.attributes
  /\ Len(a.innerBlocks) = Len(b.innerBlocks)
  /\ \A i \in 1..Len(a.innerBlocks) : SameShape(a.innerBlocks[i], b.innerBlocks[i])

\* C10: convertBlockToStatic calls replaceBlocks once, with the reference
\* block's clientId and a clone of each child of the fragment's root, in order,
\* when the root is a 'core/template' block, and else a clone of the root alone;
\* the clones take the reference block's place in the document.
C10_ConvertToStaticResult ==
  [][lastAction'.type = "CONVERT_BLOCK_TO_STATIC"
       => LET clientId == lastAction'.clientIds[1]
              oldBlock == getBlock(store, clientId)
              fragment == getReusableBlock(store, oldBlock.attributes.ref)
              root == getBlock(store, fragment.clientId)
              originals == IF root.name = "core/template"
                             THEN root.innerBlocks ELSE <<root>>
              e == store'.effects[1]
          IN /\ Len(store'.effects) = 1
             /\ e.type = "replaceBlocks"
             /\ e.clientIds = <<clientId>>
             /\ Len(e.blocks) = Len(originals)
             /\ \A i \in 1..Len(originals) :
                  /\ SameShape(e.blocks[i], originals[i])
                  /\ e.blocks[i].clientId # originals[i].clientId
             /\ \E k \in 1..Len(store.doc) :
                  /\ store.doc[k].clientId = clientId
                  /\ store'.doc = SubSeq(store.doc, 1, k - 1) \o e.blocks
                                    \o SubSeq(store.doc, k + 1, Len(store.doc))]_vars

\* C10 witness: a reference to a fragment whose root is a 'core/template' block
\* of two blocks was made static: two clones, the first with its two inner blocks.
C10_Witness ==
  /\ lastAction.type = "CONVERT_BLOCK_TO_STATIC"
  /\ Len(store.effects) = 1
  /\ Len(store.effects[1].blocks) = 2
  /\ Len(store.effects[1].blocks[1].innerBlocks) = 2

RECURSIVE clientIdsOf(_)
\* The clientIds of the blocks and of all their descendants, one entry a block.
clientIdsOf(bs) ==
  IF bs = <<>> THEN <<>>
  ELSE <<Head(bs).clientId>> \o clientIdsOf(Head(bs).innerBlocks)
         \o clientIdsOf(Tail(bs))

\* No clientId occurs twice among the blocks and their descendants.
DistinctIds(bs) == Cardinality(Range(clientIdsOf(bs))) = Len(clientIdsOf(bs))

\* C11: in the block list convertBlockToStatic produces, the clientIds of all
\* blocks, nested descendants included, are pairwise distinct, and none of them
\* is a clientId of the fragment's stored content or of the reference block.
C11_StaticOutputIdsUnique ==
  [][lastAction'.type = "CONVERT_BLOCK_TO_STATIC"
       => LET clientId == lastAction'.clientIds[1]
              oldBlock == getBlock(store, clientId)
              fragment == getReusableBlock(store, oldBlock.attributes.ref)
              root == getBlock(store, fragment.clientId)
              produced == store'.effects[1].blocks
          IN /\ DistinctIds(produced)
             /\ Range(clientIdsOf(produced))
                  \cap (Range(clientIdsOf(<<root>>)) \cup {clientId}) = {}]_vars

\* C11 witness: a reference to a fragment whose root is a block with an inner
\* block was made static: one clone with a cloned inner block.
C11_Witness ==
  /\ lastAction.type = "CONVERT_BLOCK_TO_STATIC"
  /\ Len(store.effects) = 1
  /\ Len(store.effects[1].blocks) = 1
  /\ Len(store.effects[1].blocks[1].innerBlocks) = 1

\* The effects of one type among those the last conversion dispatched.
effectsOf(s, type) == SelectSeq(s.effects, LAMBDA e : e.type = type)

C13_SingleBlockIsFragmentContent ==
  [][(/\ lastAction'.type = "CONVERT_BLOCK_TO_REUSABLE"
      /\ Len(lastAction'.clientIds) = 1)
       => LET original == getBlock(store, lastAction'.clientIds[1])
              registered == effectsOf(store', "receiveReusableBlocks")
          IN /\ Len(registered) = 1
             /\ registered[1].fragment.clientId = original.clientId
             /\ registered[1].fragment.title = "Untitled Reusable Block"
             /\ registered[1].blocks = <<original>>
             /\ registered[1].fragment \in store'.reusableBlocks
             /\ getBlock(store', original.clientId) = original]_vars

\* C13 witness: a single block with two inner blocks was converted and is the
\* content of the one fragment registered.
C13_Witness ==
  /\ lastAction.type = "CONVERT_BLOCK_TO_REUSABLE"
  /\ Len(lastAction.clientIds) = 1
  /\ Len(effectsOf(store, "receiveReusableBlocks")) = 1
  /\ Len(effectsOf(store, "receiveReusableBlocks")[1].blocks[1].innerBlocks) = 2
  /\ effectsOf(store, "receiveReusableBlocks")[1].fragment.clientId
       = lastAction.clientIds[1]

\* C14: given two or more clientIds, convertBlockToReusable registers a
\* fragment whose content is one newly created 'core/template' block whose
\* inner blocks are the selected blocks themselves, in selection order, with
\* their clientIds, and one reference block takes the place of all of them.
C14_SelectionIsWrappedInGroup ==
  [][(/\ lastAction'.type = "CONVERT_BLOCK_TO_REUSABLE"
      /\ Len(lastAction'.clientIds) >= 2)
       => LET clientIds == lastAction'.clientIds
              selected == getBlocksByClientId(store, clientIds)
              registered == effectsOf(store', "receiveReusableBlocks")
              content == registered[1].blocks[1]
              replaced == effectsOf(store', "replaceBlocks")
          IN /\ Len(registered) = 1
             /\ content.name = "core/template"
             /\ getBlock(store, content.clientId) = NoBlock
             /\ content.innerBlocks = selected
             /\ registered[1].fragment.clientId = content.clientId
             /\ getBlock(store', content.clientId) = content
             /\ Len(replaced) = 1
             /\ Len(replaced[1].blocks) = 1
             /\ \E k \in 1..Len(store.doc) :
                  /\ store.doc[k].clientId = clientIds[1]
                  /\ store'.doc = SubSeq(store.doc, 1, k - 1) \o replaced[1].blocks
                                    \o SubSeq(store.doc, k + Len(clientIds),
                                              Len(store.doc))]_vars

\* C14 witness: two blocks, the first with inner blocks of its own, were
\* converted together and are the inner blocks of the registered group block.
C14_Witness ==
  /\ lastAction.type = "CONVERT_BLOCK_TO_REUSABLE"
  /\ Len(lastAction.clientIds) = 2
  /\ LET content == effectsOf(store, "receiveReusableBlocks")[1].blocks[1]
     IN /\ content.name = "core/template"
        /\ Len(content.innerBlocks) = 2
        /\ content.innerBlocks[1].clientId = lastAction.clientIds[1]
        /\ Len(content.innerBlocks[1].innerBlocks) = 2

\* The ids of the fragments registered in a store.
fragmentIds(s) == {r.id : r \in s.reusableBlocks}

\* C15: each convertBlockToReusable call gives its fragment an id that starts
\* with 'reusable' and is the id of no fragment known before, temporary or
\* persisted, so every conversion adds a fragment and no two share an id.
C15_FreshFragmentId ==
  [][lastAction'.type = "CONVERT_BLOCK_TO_REUSABLE"
       => LET fragment == effectsOf(store', "receiveReusableBlocks")[1].fragment
          IN /\ fragment.id.kind = "string"
             /\ fragment.id \notin fragmentIds(store)
             /\ store'.reusableBlocks = store.reusableBlocks \cup {fragment}
             /\ Cardinality(fragmentIds(store'))
                  = Cardinality(store'.reusableBlocks)]_vars

\* C15 witness: a second conversion has added a second temporary fragment
\* next to the persisted one.
C15_Witness ==
  /\ lastAction.type = "CONVERT_BLOCK_TO_REUSABLE"
  /\ Cardinality({r \in store.reusableBlocks : r.id.kind = "string"}) = 2
  /\ \E r \in store.reusableBlocks : r.id.kind = "number"

\* C16: convertBlockToReusable calls replaceBlocks once, with all the converted
\* clientIds and one new 'core/block' block whose ref is the new fragment's id
\* and whose clientId is new: no block of the store had it, and it is neither
\* the fragment content's clientId nor a converted block's.
C16_ReferenceBlockReplacesSelection ==
  [][lastAction'.type = "CONVERT_BLOCK_TO_REUSABLE"
       => LET replaced == effectsOf(store', "replaceBlocks")
              fragment == effectsOf(store', "receiveReusableBlocks")[1].fragment
              reference == replaced[1].blocks[1]
          IN /\ Len(replaced) = 1
             /\ replaced[1].clientIds = lastAction'.clientIds
             /\ Len(replaced[1].blocks) = 1
             /\ reference.name = "core/block"
             /\ reference.attributes.ref = fragment.id
             /\ reference.innerBlocks = <<>>
             /\ getBlock(store, reference.clientId) = NoBlock
             /\ reference.clientId # fragment.clientId
             /\ reference.clientId \notin Range(lastAction'.clientIds)]_vars

\* C16 witness: a reference block to a temporary fragment is in the document
\* where the converted block was, and the converted block is not.
C16_Witness ==
  /\ lastAction.type = "CONVERT_BLOCK_TO_REUSABLE"
  /\ Len(effectsOf(store, "replaceBlocks")) = 1
  /\ \E k \in 1..Len(store.doc) :
       /\ store.doc[k] = effectsOf(store, "replaceBlocks")[1].blocks[1]
       /\ store.doc[k].attributes.ref.kind = "string"
  /\ \A k \in 1..Len(store.doc) : store.doc[k].clientId # lastAction.clientIds[1]

\* The document's reference blocks to the fragment with the id.
referencesTo(s, id) ==
  SelectSeq(s.doc, LAMBDA b : b.name = "core/block" /\ b.attributes.ref = id)

\* C17: convertBlockToStatic leaves the fragment as it was: the same records
\* are registered, the content block is in the store with the clientIds,
\* attributes and inner blocks it had, nothing is dispatched to the editor
\* store, and converting another reference to the fragment gives blocks of the
\* same names, attributes and inner blocks again.
C17_StaticKeepsFragment ==
  [][lastAction'.type = "CONVERT_BLOCK_TO_STATIC"
       => LET oldBlock == getBlock(store, lastAction'.clientIds[1])
              fragment == getReusableBlock(store, oldBlock.attributes.ref)
              others == referencesTo(store', fragment.id)
          IN /\ store'.reusableBlocks = store.reusableBlocks
             /\ getReusableBlock(store', fragment.id) = fragment
             /\ getBlock(store', fragment.clientId) = getBlock(store, fragment.clientId)
             /\ effectsOf(store', "receiveReusableBlocks") = <<>>
             /\ effectsOf(store', "saveReusableBlock") = <<>>
             /\ \A k \in 1..Len(others) :
                  LET again == convertBlockToStatic(
                                 [type |-> "CONVERT_BLOCK_TO_STATIC",
                                  clientIds |-> <<others[k].clientId>>,
                                  clientId |-> others[k].clientId],
                                 [store' EXCEPT !.effects = <<>>]).effects[1].blocks
                  IN /\ Len(again) = Len(store'.effects[1].blocks)
                     /\ \A i \in 1..Len(again) :
                          SameShape(again[i], store'.effects[1].blocks[i])]_vars

\* C17 witness: one of two references to a fragment was made static, and the
\* other reference and the fragment's content block are still in the store.
C17_Witness ==
  /\ lastAction.type = "CONVERT_BLOCK_TO_STATIC"
  /\ \E r \in store.reusableBlocks :
       /\ Len(referencesTo(store, r.id)) = 1
       /\ getBlock(store, r.clientId) # NoBlock
       /\ Len(store.effects[1].blocks) = 1
       /\ SameShape(store.effects[1].blocks[1], getBlock(store, r.clientId))
       /\ store.doc[1] = store.effects[1].blocks[1]

\* The selectors do not return the block the action names, the fragment its
\* ref names, or the fragment's content block.
Unresolvable(action, s) ==
  IF action.type = "CONVERT_BLOCK_TO_STATIC"
    THEN LET oldBlock == getBlock(s, action.clientIds[1])
             fragment == getReusableBlock(s, oldBlock.attributes.ref)
         IN \/ oldBlock = NoBlock
            \/ fragment = NoFragment
            \/ getBlock(s, fragment.clientId) = NoBlock
    ELSE /\ action.type = "CONVERT_BLOCK_TO_REUSABLE"
         /\ NoBlock \in Range(getBlocksByClientId(s, action.clientIds))

\* C18: a conversion whose block, fragment or fragment content does not
\* resolve ends in a failure (any error thrown is taken for the report) and
\* leaves the state as it was: no replaceBlocks, receiveBlocks, fragment
\* registration or save is dispatched.
C18_NotFoundLeavesStateUnchanged ==
  [][Unresolvable(lastAction', store)
       => /\ lastAction'.thrown # ""
          /\ store'.effects = <<>>
          /\ store'.doc = store.doc
          /\ store'.detached = store.detached
          /\ store'.reusableBlocks = store.reusableBlocks]_vars

\* C19: after any sequence of conversions, no clientId is shared by two blocks
\* of the parent's block store: the document's blocks, the fragments' content
\* blocks and all their descendants have clientIds of their own.
C19_ClientIdsUnique == DistinctIds(store.doc \o store.detached)

\* C19 witness: after conversions both ways the store holds the document with
\* cloned blocks and the content of three fragments, a group block among them.
C19_Witness ==
  /\ lastAction.type = "CONVERT_BLOCK_TO_STATIC"
  /\ Cardinality(store.reusableBlocks) = 3
  /\ \E r \in store.reusableBlocks : getBlock(store, r.clientId).name = "core/template"
  /\ Len(store.detached) = 3
  /\ Len(clientIdsOf(store.doc \o store.detached)) >= 10

\* C20: synchronizeBlocksWithTemplate returns as many blocks as the template
\* has entries; at each position the block of the list itself, with its inner
\* blocks, when there is one and it has the entry's name, and else a newly
\* created block of the entry's name; blocks past the template are dropped, an
\* empty template gives no blocks, and the list and the template stay as given.
C20_SynchronizedWithTemplate ==
  [][(~sync.synchronized /\ sync'.synchronized)
       => LET blocks == sync.blocks
              template == sync.template
              result == sync'.result
          IN /\ Len(result) = Len(template)
             /\ \A i \in 1..Len(template) :
                  IF i <= Len(blocks) /\ blocks[i].name = template[i].name
                    THEN result[i] = blocks[i]
                    ELSE /\ result[i].name = template[i].name
                         /\ result[i].clientId \notin Range(clientIdsOf(blocks))
                         /\ result[i].clientId >= sync.nextClientId
             /\ (template = <<>> => result = <<>>)
             /\ sync'.blocks = blocks
             /\ sync'.template = template]_vars

\* C20 witness: of three blocks synchronized with a template of two entries,
\* the first, which has inner blocks, was kept, the second gave way to a new
\* block of the entry's name, and the third was dropped.
C20_Witness ==
  /\ sync.synchronized
  /\ Len(sync.blocks) = 3
  /\ Len(sync.result) = 2
  /\ sync.result[1] = sync.blocks[1]
  /\ sync.blocks[1].innerBlocks # <<>>
  /\ sync.result[2].name # sync.blocks[2].name
  /\ sync.result[2].clientId \notin Range(clientIdsOf(sync.blocks))

\* C21: synchronizing a synchronized list with the same template again gives
\* the same list, the blocks the first pass created with their clientIds
\* included: the second pass creates no block.
C21_SynchronizeIdempotent ==
  [][(~sync.synchronized /\ sync'.synchronized)
       => LET again == synchronizeBlocksWithTemplate(sync'.result, sync'.template,
                                                     sync'.nextClientId)
          IN /\ again.blocks = sync'.result
             /\ again.next = sync'.nextClientId]_vars

\* C21 witness: a list holding a block that an earlier pass created was
\* synchronized with its template once more and came back as it was.
C21_Witness ==
  /\ sync.synchronized
  /\ sync.blocks # <<>>
  /\ sync.result = sync.blocks
  /\ \E i \in 1..Len(sync.blocks) : sync.blocks[i].clientId >= NoSync.nextClientId
  /\ \E i \in 1..Len(sync.blocks) : sync.blocks[i].clientId < NoSync.nextClientId

\* C22: the embedded editor's stores are its own: a step that changes the
\* private tree leaves the parent's block store as it is and is an edit made
\* while isEditing or a rebuild on a mount; a step that changes the parent's
\* block store leaves the private tree, the child's selection and the mounted
\* editor as they are; and a componentDidUpdate of ReusableBlockEdit writes
\* nothing into the child's stores but a cleared selection.
C22_TreeIsolation ==
  [][/\ privateTree' # privateTree
          => /\ store' = store
             /\ \/ state.isEditing /\ calls' = <<"edit">>
                \/ mountedKey' # mountedKey /\ privateTree' = Committed'
     /\ store' # store
          => /\ privateTree' = privateTree
             /\ childSel' = childSel
             /\ mountedKey' = mountedKey
     /\ HandlesSelectionChange
          => /\ privateTree' = privateTree
             /\ childSel' \in {childSel, NoSelection}]_vars

\* C22 witness: the private tree holds an edit not yet committed while the
\* parent document has had a block converted into a fragment.
C22_Witness ==
  /\ state.isEditing
  /\ privateTree # Committed
  /\ lastAction.type = "CONVERT_BLOCK_TO_REUSABLE"
  /\ \E r \in store.reusableBlocks : r.id.kind = "string"
  /\ \A k \in 1..Len(store.doc) : store.doc[k].name = "core/block"

\* The step changes what the reference resolves to: reusableBlock becomes
\* defined or undefined, or isFetching toggles.
ResolutionChanges ==
  \/ (ownProps'.reusableBlock = Undefined) # (ownProps.reusableBlock = Undefined)
  \/ ownProps'.isFetching # ownProps.isFetching

\* C23: a change of the fragment's resolution status changes neither isEditing
\* nor cancelIncrementKey, and queues no state: while a fetch is pending and
\* after it ends, with the record or without, the session is Locked or Editing
\* as it was.
C23_ResolutionKeepsSession ==
  [][ResolutionChanges => state' = state /\ pending' = pending]_vars

\* C23 witness: a session that was cancelled once and is Editing again shows
\* the loading indicator: its fragment is being fetched anew.
C23_Witness ==
  /\ state = [isEditing |-> TRUE, cancelIncrementKey |-> 1]
  /\ ownProps.isFetching
  /\ ownProps.reusableBlock = Undefined
  /\ rendered.placeholder = "spinner"

\* C24: while the referenced fragment is not resolved, only a placeholder is
\* rendered, the loading indicator if a fetch for the ref is in flight and else
\* the unavailable message: no embedded editor is mounted and no panel or
\* indicator shown; and no handler or reaction of the component starts a fetch.
C24_PlaceholderWhenUnresolved ==
  /\ [](ownProps.reusableBlock = Undefined
          => /\ rendered.placeholder
                  = IF ownProps.isFetching THEN "spinner" ELSE "unavailable"
             /\ mountedKey = Unmounted
             /\ ~rendered.panel
             /\ ~rendered.indicator)
  /\ [](ownProps.reusableBlock # Undefined => rendered.placeholder = "none")
  /\ [][fetching' # fetching
          => /\ calls' = <<>>
             /\ UNCHANGED <<state, pending, props, isSelectingInnerBlock>>]_vars

\* C24 witness: the record of a persisted fragment is not in the store and no
\* fetch is in flight while the session is Editing: the unavailable message is
\* rendered and no editor is mounted.
C24_Witness ==
  /\ ref.kind = "number"
  /\ ref.val \notin resolved
  /\ ~ownProps.isFetching
  /\ state.isEditing
  /\ rendered.placeholder = "unavailable"
  /\ mountedKey = Unmounted

\* The types of the effects the last conversion dispatched, in order.
effectTypes(s) == [i \in 1..Len(s.effects) |-> s.effects[i].type]

\* C25: convertBlockToReusable dispatches, each once and in this order:
\* receiveBlocks of the new group block (multi-selection only), the
\* registration of the fragment, saveReusableBlock with the fragment's id,
\* replaceBlocks of the converted blocks by the reference block, receiveBlocks
\* of the fragment's content block; the content block is in the parent's block
\* store afterwards.
C25_ConvertToReusableOrder ==
  [][lastAction'.type = "CONVERT_BLOCK_TO_REUSABLE"
       => LET multi == Len(lastAction'.clientIds) > 1
              e == IF multi THEN Tail(store'.effects) ELSE store'.effects
              fragment == e[1].fragment
              content == e[1].blocks[1]
          IN /\ effectTypes(store')
                  = (IF multi THEN <<"receiveBlocks">> ELSE <<>>)
                      \o <<"receiveReusableBlocks", "saveReusableBlock",
                           "replaceBlocks", "receiveBlocks">>
             /\ multi => store'.effects[1].blocks = <<content>>
             /\ fragment.clientId = content.clientId
             /\ e[2].fragment.id = fragment.id
             /\ e[3].clientIds = lastAction'.clientIds
             /\ e[3].blocks[1].attributes.ref = fragment.id
             /\ e[4].blocks = <<content>>
             /\ getBlock(store', content.clientId) = content]_vars

\* C25 witness: a multi-selection was converted with five effects, the first
\* and the last a receiveBlocks of the same group block.
C25_Witness ==
  /\ lastAction.type = "CONVERT_BLOCK_TO_REUSABLE"
  /\ Len(store.effects) = 5
  /\ store.effects[1].type = "receiveBlocks"
  /\ store.effects[5] = store.effects[1]
  /\ store.effects[1].blocks[1].name = "core/template"

\* The step is a call of a panel handler: it queues state and flushes none.
QueuesState == Len(pending') > Len(pending)

\* C26: startEditing and stopEditing change nothing but isEditing: neither the
\* call nor the flush of a queue holding only such calls changes the private
\* tree, cancelIncrementKey, the guard, the parent's or the child's selection,
\* and the embedded editor stays mounted with the content edited so far.
C26_StartStopOnlyToggle ==
  [][/\ QueuesState
          => UNCHANGED <<state, privateTree, mountedKey, isSelectingInnerBlock,
                         parentSel, childSel>>
     /\ (Flushes /\ Count(calls, "cancelEditing") = 0)
          => /\ state'.cancelIncrementKey = state.cancelIncrementKey
             /\ UNCHANGED <<privateTree, mountedKey, isSelectingInnerBlock,
                            parentSel, childSel>>]_vars

\* C26 witness: an edit was followed by stopEditing; the session is Locked and
\* the same editor holds the edited content, not yet committed.
C26_Witness ==
  /\ calls = <<"edit", "stopEditing">>
  /\ pending = <<>>
  /\ ~state.isEditing
  /\ mountedKey = state.cancelIncrementKey
  /\ privateTree # Committed

C28_AllocatedIdsAreTemporary ==
  /\ [][lastAction'.type = "CONVERT_BLOCK_TO_REUSABLE"
          => \A e \in Range(effectsOf(store', "receiveReusableBlocks")) :
               /\ isTemporaryReusableBlock(e.fragment.id)
               /\ e.fragment.id \in NewRefs']_vars
  /\ [](ref \in NewRefs
          => /\ ownProps.reusableBlock = Undefined
             /\ ~ownProps.isFetching
             /\ ~ownProps.canUpdateBlock
             /\ rendered.placeholder = "unavailable"
             /\ mountedKey = Unmounted)
  /\ [][(ref \in NewRefs /\ ref' = ref) => fetching' \subseteq fetching]_vars

\* C28 witness: the reference block edited carries the id of the second
\* fragment the conversions made, and the placeholder is rendered for it.
C28_Witness ==
  /\ ref \in NewRefs
  /\ ref = uniqueId(1)
  /\ Cardinality(NewRefs) = 2
  /\ rendered.placeholder = "unavailable"
  /\ 1 \in resolved


\* C29: whenever the session is Locked at a settled point, the child's
\* selection is empty; in particular it is empty again once stopEditing or
\* cancelEditing has settled.
C29_LockedChildUnselected ==
  (Settled /\ ~state.isEditing) => ~hasSelectedBlock(childSel)

\* C30: in every reachable state with isEditing true the edit panel that
\* offers Save and Cancel is rendered, also when the fragment has become
\* unresolved while Editing, so Editing can always be left.
C30_EditingCanBeLeft ==
  state.isEditing => (rendered.panel /\ rendered.panelIsEditing)
====
